---- MODULE Spec2Model ----
(***************************************************************************)
(* Model of src/processors.py: the multi-phase training-file discovery     *)
(* (MultiPhaseTrainProcessor.get_number_of_train_phases), the split-file   *)
(* resolution (FrameProcessor.get_train_examples / get_dev_examples /      *)
(* get_test_examples) and the row-to-example mapping (_create_examples of  *)
(* FrameProcessor, WebDetectProcessor and WebDetectOnlyProcessor).         *)
(*                                                                         *)
(* Python str values are sequences of one-character strings, so that       *)
(* startswith/endswith, the lexical order used by sorted(), "%s"           *)
(* formatting and f-strings are computed the way Python computes them.     *)
(***************************************************************************)
EXTENDS Integers, Sequences, FiniteSets, TLC

\* ------------------------------------------------------------------ bounds

\* Largest phase number of a trainN.tsv entry a directory may hold.
MaxPhase == 10

\* Largest number of rows of a table.
MaxRows == 2

\* ------------------------------------------------------------- str values

\* The characters used, in code-point order (the order of Python's str <).
Alphabet ==
    << "-", ".", "0", "1", "2", "3", "4", "5", "6", "7", "8", "9", "N", "_",
       "a", "b", "c", "d", "e", "f", "g", "h", "i", "j", "k", "l", "m", "n",
       "o", "p", "q", "r", "s", "t", "u", "v", "w", "x", "y", "z" >>

Ord == [c \in {Alphabet[i] : i \in 1..Len(Alphabet)} |->
            CHOOSE i \in 1..Len(Alphabet) : Alphabet[i] = c]

\* Python's a < b on str: the first differing character decides, a proper
\* prefix is smaller.
StrLess(a, b) ==
    LET n     == IF Len(a) < Len(b) THEN Len(a) ELSE Len(b)
        diffs == {i \in 1..n : a[i] # b[i]}
    IN  IF diffs = {}
        THEN Len(a) < Len(b)
        ELSE LET i == CHOOSE j \in diffs : \A k \in diffs : j <= k
             IN  Ord[a[i]] < Ord[b[i]]

\* s.startswith(p)
StartsWith(s, p) == Len(s) >= Len(p) /\ SubSeq(s, 1, Len(p)) = p

\* s.endswith(x)
EndsWith(s, x) ==
    Len(s) >= Len(x) /\ SubSeq(s, Len(s) - Len(x) + 1, Len(s)) = x

\* str(n) of a natural number.
RECURSIVE NatToStr(_)
NatToStr(n) ==
    LET d == Alphabet[(n % 10) + 3]
    IN  IF n < 10 THEN <<d>> ELSE NatToStr(n \div 10) \o <<d>>

\* str(n) of an int, as an f-string's {n} renders it.
IntToStr(n) == IF n < 0 THEN <<"-">> \o NatToStr(-n) ELSE NatToStr(n)

\* sorted(names): ascending in Python's str order.
RECURSIVE Sorted(_)
Sorted(S) ==
    IF S = {} THEN <<>>
    ELSE LET m == CHOOSE x \in S : \A y \in S \ {x} : StrLess(x, y)
         IN  <<m>> \o Sorted(S \ {m})

\* ------------------------------------------------------------- file names

TRAIN   == <<"t", "r", "a", "i", "n">>
DOT_TSV == <<".", "t", "s", "v">>

TRAIN_TSV == TRAIN \o DOT_TSV
DEV_TSV   == <<"d", "e", "v">> \o DOT_TSV
TEST_TSV  == <<"t", "e", "s", "t">> \o DOT_TSV

\* f"train{i}.tsv"
TrainN(i) == TRAIN \o IntToStr(i) \o DOT_TSV

\* Entries the name filter must drop: one fails only the suffix test, one
\* only the prefix test.
TRAIN1_TXT  == TRAIN \o <<"1", ".", "t", "x", "t">>
XTRAIN1_TSV == <<"x">> \o TrainN(1)

\* ------------------------------------------------------- outcomes of calls

NoCall       == [kind |-> "none",   exc |-> "",  value |-> <<>>]
Return(v)    == [kind |-> "return", exc |-> "",  value |-> v]
Raise(e)     == [kind |-> "raise",  exc |-> e,   value |-> <<>>]

\* --------------------------------------------------------- phase discovery

\* lambda s: s.startswith("train") and s.endswith(".tsv")
IsTrainFile(s) == StartsWith(s, TRAIN) /\ EndsWith(s, DOT_TSV)

\* list(filter(..., sorted([p.name for p in Path(data_dir).iterdir()])))
TrainPrefixedFiles(entries) == SelectSeq(Sorted(entries), IsTrainFile)

\* Variant of NotSequential that compares the first name only.
NotSequentialFirstOnly(files) == Len(files) >= 1 /\ TrainN(1) # files[1]

\* The for loop: some enumerate(files, start=1) position i has
\* f"train{i}.tsv" != basename.
NotSequential(files) == \E i \in 1..Len(files) : TrainN(i) # files[i]

\* Variant of GetNumberOfTrainPhases without the lone "train.tsv" case.
GetNumberOfTrainPhasesNoSingle(entries) ==
    LET files == TrainPrefixedFiles(entries)
    IN  IF NotSequential(files) THEN Raise("Exception") ELSE Return(Len(files))

\* get_number_of_train_phases(data_dir), data_dir holding `entries`.
GetNumberOfTrainPhases(entries) ==
    LET files == TrainPrefixedFiles(entries)
    IN  IF Len(files) = 1 /\ files[1] = TRAIN_TSV
        THEN Return(0)
        ELSE IF NotSequential(files)
             THEN Raise("Exception")
             ELSE Return(Len(files))

\* ------------------------------------------------------------ table cells

\* A cell of the DataFrame read with dtype=object: a str, or NaN for a
\* blank/missing cell.  None is the default of InputExample.text_b.
Str(s) == [kind |-> "str",  s |-> s]
NaN    == [kind |-> "nan",  s |-> <<>>]
None   == [kind |-> "none", s |-> <<>>]

\* The exception a subscript of a missing column raises, as a value.
KeyError == [kind |-> "keyerror", s |-> <<>>]

\* "%s" % v
FormatS(v) ==
    CASE v.kind = "str"  -> v.s
      [] v.kind = "nan"  -> <<"n", "a", "n">>
      [] v.kind = "none" -> <<"N", "o", "n", "e">>
      [] OTHER            -> <<>>

\* Variant of FillNa that leaves the row as read.
FillNaOmitted(row) == row

\* row.fillna(""): every NaN cell of the row becomes the empty str.
FillNa(row) ==
    [c \in DOMAIN row |-> IF row[c].kind = "nan" THEN Str(<<>>) ELSE row[c]]

\* LABELS = [str(i) for i in range(1, 10)]
LABELS == [i \in 1..9 |-> IntToStr(i)]

\* ------------------------------------------------------- row -> example

IMAGE_ID_ == <<"-", "i", "m", "a", "g", "e", "_", "i", "d", "_">>
ID_       == <<"-", "i", "d", "_">>

\* Variant of Subscript in the manner of row.get(c, ""): no KeyError.
SubscriptOrDefault(row, c) == IF c \in DOMAIN row THEN row[c] ELSE Str(<<>>)

\* row[c]: the cell, or KeyError when the row has no column c.
Subscript(row, c) == IF c \in DOMAIN row THEN row[c] ELSE KeyError

\* Variant of Guid that formats row["ImageID"] twice.
GuidImageIdTwice(set_type, row) ==
    set_type \o IMAGE_ID_ \o FormatS(Subscript(row, "ImageID"))
             \o ID_ \o FormatS(Subscript(row, "ImageID"))

\* "%s-image_id_%s-id_%s" % (set_type, row["ImageID"], row["ID"])
Guid(set_type, row) ==
    set_type \o IMAGE_ID_ \o FormatS(Subscript(row, "ImageID"))
             \o ID_ \o FormatS(Subscript(row, "ID"))

\* InputExample(guid=..., text_a=..., text_b=..., label=...)
InputExample(guid, text_a, text_b, label) ==
    [guid |-> guid, text_a |-> text_a, text_b |-> text_b, label |-> label]

\* The loop bodies of the three classes, after row = row.fillna("").
FrameExample(set_type, row) ==
    InputExample(Guid(set_type, row), Subscript(row, "news_title"), None,
                 Subscript(row, "Q3 Theme1"))

WebDetectExample(set_type, row) ==
    InputExample(Guid(set_type, row), Subscript(row, "news_title"),
                 Subscript(row, "WebDetectEntities"),
                 Subscript(row, "Q3 Theme1"))

\* Variant of WebDetectOnlyExample that keeps news_title as text_a.
WebDetectOnlyExampleTitle(set_type, row) ==
    InputExample(Guid(set_type, row), Subscript(row, "news_title"),
                 None, Subscript(row, "Q3 Theme1"))

WebDetectOnlyExample(set_type, row) ==
    InputExample(Guid(set_type, row), Subscript(row, "WebDetectEntities"),
                 None, Subscript(row, "Q3 Theme1"))

\* The columns each loop body subscripts.
ColumnsRead(cls) ==
    CASE cls = "frame" ->
           {"ImageID", "ID", "news_title", "Q3 Theme1"}
      [] cls = "webdetect" ->
           {"ImageID", "ID", "news_title", "WebDetectEntities", "Q3 Theme1"}
      [] cls = "webdetectonly" ->
           {"ImageID", "ID", "WebDetectEntities", "Q3 Theme1"}

\* One iteration of the for loop of _create_examples of class cls: a
\* subscript that raises KeyError ends the iteration with that exception.
RowExample(cls, set_type, row0) ==
    LET row == FillNa(row0)
    IN  IF \E c \in ColumnsRead(cls) : Subscript(row, c) = KeyError
        THEN Raise("KeyError")
        ELSE Return(CASE cls = "frame"         -> FrameExample(set_type, row)
                      [] cls = "webdetect"     -> WebDetectExample(set_type, row)
                      [] cls = "webdetectonly" -> WebDetectOnlyExample(set_type, row))

\* Variant of ExamplesLoop that inserts each example at the front.
RECURSIVE ExamplesLoopPrepend(_, _, _, _, _)
ExamplesLoopPrepend(cls, set_type, rows, i, examples) ==
    IF i > Len(rows)
    THEN Return(examples)
    ELSE LET r == RowExample(cls, set_type, rows[i])
         IN  IF r.kind = "raise"
             THEN r
             ELSE ExamplesLoopPrepend(cls, set_type, rows, i + 1,
                                      <<r.value>> \o examples)

\* for _, row in df.iterrows(): ... examples.append(...); return examples.
\* An exception in an iteration leaves the call with no list returned.
RECURSIVE ExamplesLoop(_, _, _, _, _)
ExamplesLoop(cls, set_type, rows, i, examples) ==
    IF i > Len(rows)
    THEN Return(examples)
    ELSE LET r == RowExample(cls, set_type, rows[i])
         IN  IF r.kind = "raise"
             THEN r
             ELSE ExamplesLoop(cls, set_type, rows, i + 1,
                               Append(examples, r.value))

\* self._create_examples(df, set_type) of an instance of class cls.
CreateExamples(cls, df, set_type) == ExamplesLoop(cls, set_type, df.rows, 1, <<>>)

\* --------------------------------------------------- split-file resolution

\* Variant of TrainFilePath that numbers the phase files from 0.
TrainFilePathZeroBased(phase) ==
    IF phase # 0 THEN TrainN(phase - 1) ELSE TRAIN_TSV

\* Variant of TrainFilePath without the test of `phase`.
TrainFilePathAlwaysNumbered(phase) == TrainN(phase)

\* get_train_examples: file_path = f"train{phase}.tsv" if phase else "train.tsv"
TrainFilePath(phase) == IF phase # 0 THEN TrainN(phase) ELSE TRAIN_TSV

\* _read_csv(os.path.join(data_dir, file_path)) then _create_examples:
\* open() raises FileNotFoundError when the directory has no such entry.
LoadExamples(cls, dir, file_path, set_type) ==
    IF file_path \notin DOMAIN dir
    THEN Raise("FileNotFoundError")
    ELSE CreateExamples(cls, dir[file_path], set_type)

SET_TRAIN == TRAIN
SET_DEV   == <<"d", "e", "v">>
SET_TEST  == <<"t", "e", "s", "t">>

\* ------------------------------------------------------------------ inputs

Columns == {"ImageID", "ID", "news_title", "Q3 Theme1", "WebDetectEntities"}

Classes == {"frame", "webdetect", "webdetectonly"}

SetTypes == {SET_TRAIN, SET_DEV, SET_TEST}

\* Cell values of the tables handed to _create_examples: each column blank
\* (NaN) or filled; the filled label "10" is none of LABELS.
CellValues == [c \in Columns |->
    CASE c = "ImageID"           -> {NaN, Str(<<"4", "2">>)}
      [] c = "ID"                -> {NaN, Str(<<"7">>)}
      [] c = "news_title"        -> {NaN, Str(<<"h">>)}
      [] c = "Q3 Theme1"         -> {NaN, Str(<<"1", "0">>)}
      [] c = "WebDetectEntities" -> {NaN, Str(<<"e">>)}]

\* Cell values that make identifiers collide: equal cells, NaN next to "",
\* and an ImageID that holds the text "-id_" itself.
GuidCellValues == [c \in Columns |->
    CASE c = "ImageID" -> {NaN, Str(<<>>), Str(<<"1">>),
                           Str(<<"1">> \o ID_ \o <<"2">>)}
      [] c = "ID"      -> {NaN, Str(<<"3">>), Str(<<"2">> \o ID_ \o <<"3">>)}
      [] c = "news_title"        -> {Str(<<"h">>)}
      [] c = "Q3 Theme1"         -> {Str(<<"3">>)}
      [] c = "WebDetectEntities" -> {Str(<<"e">>)}]

\* Rows over a header: one cell per column.
RECURSIVE RowsOver(_, _)
RowsOver(header, cells) ==
    IF header = {} THEN {<<>>}
    ELSE LET c == CHOOSE x \in header : TRUE
         IN  {r @@ (c :> v) : r \in RowsOver(header \ {c}, cells), v \in cells[c]}

Table(header, rows) == [header |-> header, rows |-> rows]

\* df is a table of at most MaxRows rows over `header` with cells from `cells`.
IsTableOver(t, header, cells) ==
    \E k \in 0..MaxRows :
        \E rows \in [1..k -> RowsOver(header, cells)] : t = Table(header, rows)

\* The table every file holds where only file names matter.
OneRow ==
    Table(Columns,
          <<[c \in Columns |-> CHOOSE v \in CellValues[c] : v.kind = "str"]>>)

\* File contents where the files of a directory differ.
FileTables ==
    { Table(Columns, <<>>),
      OneRow,
      Table(Columns \ {"ID"}, <<[c \in Columns \ {"ID"} |-> NaN]>>) }

\* Directory entries of the phase-discovery runs.
PhaseNames ==
    {TrainN(i) : i \in 1..MaxPhase} \cup {TRAIN_TSV, TRAIN1_TXT, XTRAIN1_TSV}

\* Directory entries of the split-loading runs.
SplitNames == {TRAIN_TSV, TrainN(1), TrainN(2), DEV_TSV, TEST_TSV}

\* phase arguments of get_train_examples (0 is also the default).
PhaseArgs == (-1)..(MaxPhase + 1)

EmptyTable == Table({}, <<>>)

\* ------------------------------------------------------------------- state

VARIABLES
    cls,       \* the class of the processor instance (a key of `processors`)
    dir,       \* data_dir: entry name -> the table read_csv yields for it
    df,        \* the DataFrame handed to _create_examples directly
    phases,    \* outcome of the last get_number_of_train_phases call
    request,   \* the last examples call: operation, phase, set_type
    path,      \* the entry name the last examples call opened (<<>>: none)
    examples   \* outcome of the last examples call

vars == <<cls, dir, df, phases, request, path, examples>>

NoRequest == [op |-> "none", phase |-> 0, set_type |-> <<>>]

Idle ==
    /\ phases = NoCall
    /\ request = NoRequest
    /\ path = <<>>
    /\ examples = NoCall

\* ----------------------------------------------------------------- actions

\* processor.get_number_of_train_phases(data_dir)
CallGetNumberOfTrainPhases ==
    /\ phases' = GetNumberOfTrainPhases(DOMAIN dir)
    /\ UNCHANGED <<cls, dir, df, request, path, examples>>

\* processor.get_train_examples(data_dir, phase)
CallGetTrainExamples(phase) ==
    /\ request' = [op |-> "get_train_examples", phase |-> phase,
                   set_type |-> SET_TRAIN]
    /\ path' = TrainFilePath(phase)
    /\ examples' = LoadExamples(cls, dir, TrainFilePath(phase), SET_TRAIN)
    /\ UNCHANGED <<cls, dir, df, phases>>

\* processor.get_dev_examples(data_dir)
CallGetDevExamples ==
    /\ request' = [op |-> "get_dev_examples", phase |-> 0, set_type |-> SET_DEV]
    /\ path' = DEV_TSV
    /\ examples' = LoadExamples(cls, dir, DEV_TSV, SET_DEV)
    /\ UNCHANGED <<cls, dir, df, phases>>

\* processor.get_test_examples(data_dir)
CallGetTestExamples ==
    /\ request' = [op |-> "get_test_examples", phase |-> 0,
                   set_type |-> SET_TEST]
    /\ path' = TEST_TSV
    /\ examples' = LoadExamples(cls, dir, TEST_TSV, SET_TEST)
    /\ UNCHANGED <<cls, dir, df, phases>>

\* processor._create_examples(df, set_type)
CallCreateExamples(set_type) ==
    /\ request' = [op |-> "_create_examples", phase |-> 0,
                   set_type |-> set_type]
    /\ path' = <<>>
    /\ examples' = CreateExamples(cls, df, set_type)
    /\ UNCHANGED <<cls, dir, df, phases>>

\* ---------------------------------------------------------- specifications

\* Phase discovery over directories of train files.
InitPhases ==
    /\ cls \in Classes
    /\ \E names \in SUBSET PhaseNames : dir = [n \in names |-> OneRow]
    /\ df = EmptyTable
    /\ Idle

NextPhases == CallGetNumberOfTrainPhases

SpecPhases == InitPhases /\ [][NextPhases]_vars

\* Split-file resolution over directories whose files differ in content.
InitSplit ==
    /\ cls \in Classes
    /\ \E names \in SUBSET SplitNames : dir \in [names -> FileTables]
    /\ df = EmptyTable
    /\ Idle

NextSplit ==
    \/ \E phase \in PhaseArgs : CallGetTrainExamples(phase)
    \/ CallGetDevExamples
    \/ CallGetTestExamples

SpecSplit == InitSplit /\ [][NextSplit]_vars

\* The row mapping over every table of at most MaxRows rows, every header.
InitBuild ==
    /\ cls \in Classes
    /\ dir = <<>>
    /\ \E header \in SUBSET Columns : IsTableOver(df, header, CellValues)
    /\ Idle

NextBuild == \E set_type \in SetTypes : CallCreateExamples(set_type)

SpecBuild == InitBuild /\ [][NextBuild]_vars

\* The row mapping over tables whose identifier cells collide.
InitGuid ==
    /\ cls \in Classes
    /\ dir = <<>>
    /\ IsTableOver(df, Columns, GuidCellValues)
    /\ Idle

SpecGuid == InitGuid /\ [][NextBuild]_vars

\* ================================================================== claims

Range(f) == {f[i] : i \in DOMAIN f}

\* The entries of the directory with prefix "train" and suffix ".tsv".
Matched ==
    {n \in DOMAIN dir : StartsWith(n, TRAIN) /\ EndsWith(n, DOT_TSV)}

\* "train{i}.tsv", written out.
Numbered(i) == TRAIN \o IntToStr(i) \o DOT_TSV

Counted == phases # NoCall

\* ---- C1 ----------------------------------------------------------------
\* C1: for every K >= 1, when the directory's matched entries are exactly
\* train1.tsv .. trainK.tsv (other entries not matching the filter),
\* get_number_of_train_phases returns K and does not fail.
C1_SequentialReturnsK ==
    \A K \in 1..MaxPhase :
        (Counted /\ Matched = {Numbered(i) : i \in 1..K}) => phases = Return(K)

\* ---- C2 ----------------------------------------------------------------
\* C2: when the sorted matched names are not the single name "train.tsv"
\* and some 1-based position i holds a name other than "train{i}.tsv",
\* get_number_of_train_phases fails with the naming exception and returns
\* no count.
C2_MismatchRaises ==
    LET names == Sorted(Matched)
    IN  (/\ Counted
         /\ names # <<TRAIN_TSV>>
         /\ \E i \in 1..Len(names) : names[i] # Numbered(i))
        => phases = Raise("Exception")

\* A gap (train1.tsv with train3.tsv, non-matching entries beside them) has
\* been rejected.
C2_Witness ==
    /\ Matched = {Numbered(1), Numbered(3)}
    /\ XTRAIN1_TSV \in DOMAIN dir
    /\ phases = Raise("Exception")

\* ---- C3 ----------------------------------------------------------------
\* C3: get_number_of_train_phases returns 0, without failing, when the
\* matched names are exactly ["train.tsv"] and when there are none,
\* whatever non-matching entries the directory holds.
C3_SingleOrNoneReturnsZero ==
    (Counted /\ (Matched = {TRAIN_TSV} \/ Matched = {})) => phases = Return(0)

\* The lone train.tsv, beside entries the filter drops, has been counted.
C3_Witness ==
    /\ Matched = {TRAIN_TSV}
    /\ {TRAIN1_TXT, XTRAIN1_TSV} \subseteq DOMAIN dir
    /\ phases = Return(0)

\* ---- C10 ---------------------------------------------------------------
\* C10: when get_number_of_train_phases has returned K >= 1 for the
\* directory, "train.tsv" is no entry, every phase p in 1..K resolves (in
\* get_train_examples) to an entry of the directory and so does not fail
\* with a missing file, and the matched entries are exactly those K names.
C10_DiscoveryAgreesWithLoading ==
    (phases.kind = "return" /\ phases.value >= 1) =>
        /\ TRAIN_TSV \notin DOMAIN dir
        /\ \A p \in 1..phases.value :
              /\ TrainFilePath(p) \in DOMAIN dir
              /\ TrainFilePath(p) = Numbered(p)
              /\ LoadExamples(cls, dir, TrainFilePath(p), SET_TRAIN).exc
                     # "FileNotFoundError"
        /\ Matched = {Numbered(p) : p \in 1..phases.value}

\* Three phases have been discovered in a directory that also holds
\* entries the filter drops.
C10_Witness ==
    /\ phases = Return(3)
    /\ TRAIN1_TXT \in DOMAIN dir

\* ---- the row mapping ----------------------------------------------------

\* x in s  (substring test)
Contains(s, x) ==
    \E i \in 1..(Len(s) - Len(x) + 1) : SubSeq(s, i, i + Len(x) - 1) = x

\* The text of a cell with a blank cell read as the empty string.
Text(cell) == IF cell.kind = "nan" THEN <<>> ELSE cell.s

\* The columns each variant reads, as the claims list them.
VariantColumns(c) ==
    {"ImageID", "ID", "Q3 Theme1"}
    \cup (IF c \in {"frame", "webdetect"} THEN {"news_title"} ELSE {})
    \cup (IF c \in {"webdetect", "webdetectonly"}
          THEN {"WebDetectEntities"} ELSE {})

Built == request.op = "_create_examples"

\* "{split}-image_id_{ImageID}-id_{ID}" of a row of the table.
Identifier(split, row) ==
    split \o <<"-", "i", "m", "a", "g", "e", "_", "i", "d", "_">>
          \o Text(row["ImageID"]) \o <<"-", "i", "d", "_">> \o Text(row["ID"])

\* ---- C4 ----------------------------------------------------------------
\* C4: for a table with rows R1..Rn holding every column the variant
\* reads, _create_examples returns exactly n examples, the i-th with
\* identifier "{split}-image_id_{Ri.ImageID}-id_{Ri.ID}" and with the
\* row's "Q3 Theme1" cell as label (a blank cell as ""), whether or not
\* that is one of "1".."9".
C4_OneExamplePerRowInOrder ==
    (Built /\ VariantColumns(cls) \subseteq df.header) =>
        /\ examples.kind = "return"
        /\ Len(examples.value) = Len(df.rows)
        /\ \A i \in 1..Len(df.rows) :
              /\ examples.value[i].guid
                     = Identifier(request.set_type, df.rows[i])
              /\ examples.value[i].label = Str(Text(df.rows[i]["Q3 Theme1"]))

\* Two rows with different identifiers were mapped, the second one with a
\* label that is none of "1".."9".
C4_Witness ==
    /\ Built
    /\ examples.kind = "return"
    /\ Len(examples.value) = 2
    /\ examples.value[1].guid # examples.value[2].guid
    /\ examples.value[2].label.s \notin Range(LABELS)
    /\ examples.value[2].label.s # <<>>

\* ---- C5 ----------------------------------------------------------------
\* The outcome of _create_examples of class c on the table and split of
\* the call made: the call's own outcome for the instance's class.
BuiltBy(c) ==
    IF c = cls THEN examples ELSE CreateExamples(c, df, request.set_type)

\* C5: on a table holding all five columns and the same split, row for
\* row: webdetect's text_a is frame's text_a (the news_title cell);
\* webdetectonly's text_a is webdetect's text_b (the WebDetectEntities
\* cell); frame and webdetectonly leave text_b unset; guid and label are
\* the same in all three.
C5_VariantsAgree ==
    (Built /\ Columns \subseteq df.header) =>
        LET f == BuiltBy("frame")
            w == BuiltBy("webdetect")
            o == BuiltBy("webdetectonly")
        IN  /\ f.kind = "return" /\ w.kind = "return" /\ o.kind = "return"
            /\ Len(f.value) = Len(df.rows)
            /\ Len(w.value) = Len(df.rows)
            /\ Len(o.value) = Len(df.rows)
            /\ \A i \in 1..Len(df.rows) :
                  /\ w.value[i].text_a = f.value[i].text_a
                  /\ f.value[i].text_a = Str(Text(df.rows[i]["news_title"]))
                  /\ o.value[i].text_a = w.value[i].text_b
                  /\ w.value[i].text_b
                         = Str(Text(df.rows[i]["WebDetectEntities"]))
                  /\ f.value[i].text_b = None
                  /\ o.value[i].text_b = None
                  /\ f.value[i].guid = w.value[i].guid
                  /\ w.value[i].guid = o.value[i].guid
                  /\ f.value[i].label = w.value[i].label
                  /\ w.value[i].label = o.value[i].label

\* A webdetectonly instance mapped a row whose news_title and
\* WebDetectEntities cells differ.
C5_Witness ==
    /\ Built
    /\ cls = "webdetectonly"
    /\ Columns \subseteq df.header
    /\ examples.kind = "return"
    /\ Len(examples.value) >= 1
    /\ df.rows[1]["news_title"] = Str(<<"h">>)
    /\ examples.value[1].text_a = Str(<<"e">>)

\* ---- C6 ----------------------------------------------------------------
\* C6 as stated: for a table whose header lacks a column the variant
\* reads, whatever its rows, _create_examples fails with the missing-column
\* error (KeyError) and returns no examples.
C6_MissingColumnAlwaysFails ==
    (Built /\ ~(VariantColumns(cls) \subseteq df.header))
        => examples = Raise("KeyError")

\* C6 amended: for a table with at least one row whose header lacks a
\* column the variant reads, _create_examples fails with KeyError for the
\* whole call and returns no examples; for a table with no rows it returns
\* the empty list, whatever the header.
C6_MissingColumnFailsWhenRows ==
    /\ (Built /\ ~(VariantColumns(cls) \subseteq df.header)
              /\ Len(df.rows) >= 1)
           => examples = Raise("KeyError")
    /\ (Built /\ Len(df.rows) = 0) => examples = Return(<<>>)

\* A two-row table without the ID column was refused.
C6_Witness ==
    /\ Built
    /\ df.header = Columns \ {"ID"}
    /\ Len(df.rows) = 2
    /\ examples = Raise("KeyError")

\* ---- C7 ----------------------------------------------------------------
\* C7: in every example returned, text_a, label and (when the variant
\* sets it) text_b are strings, "" for a blank cell, never NaN; a blank
\* ImageID or ID contributes "" to the identifier.
C7_BlankCellsBecomeEmpty ==
    (Built /\ examples.kind = "return") =>
        \A i \in 1..Len(examples.value) :
            LET e   == examples.value[i]
                row == df.rows[i]
                src == IF cls = "webdetectonly"
                       THEN "WebDetectEntities" ELSE "news_title"
            IN  /\ e.text_a.kind = "str"
                /\ e.label.kind = "str"
                /\ e.text_b.kind = (IF cls = "webdetect" THEN "str" ELSE "none")
                /\ row[src] = NaN => e.text_a = Str(<<>>)
                /\ row["Q3 Theme1"] = NaN => e.label = Str(<<>>)
                /\ (cls = "webdetect" /\ row["WebDetectEntities"] = NaN)
                       => e.text_b = Str(<<>>)
                /\ row["ImageID"] = NaN =>
                       StartsWith(e.guid, request.set_type
                           \o <<"-", "i", "m", "a", "g", "e", "_", "i", "d", "_",
                                "-", "i", "d", "_">>)
                /\ row["ID"] = NaN =>
                       e.guid = request.set_type
                           \o <<"-", "i", "m", "a", "g", "e", "_", "i", "d", "_">>
                           \o Text(row["ImageID"]) \o <<"-", "i", "d", "_">>

\* A row whose five cells are all blank was mapped by a webdetect instance.
C7_Witness ==
    /\ Built
    /\ cls = "webdetect"
    /\ examples.kind = "return"
    /\ Len(examples.value) >= 1
    /\ \A c \in Columns : df.rows[1][c] = NaN
    /\ examples.value[1].text_a = Str(<<>>)
    /\ examples.value[1].text_b = Str(<<>>)

\* ---- C9 ----------------------------------------------------------------
\* C9 as stated: in the list one _create_examples call returns, no two
\* examples at different positions have the same identifier.
C9_IdentifiersUnique ==
    (Built /\ examples.kind = "return") =>
        \A i, j \in 1..Len(examples.value) :
            i # j => examples.value[i].guid # examples.value[j].guid

\* The (ImageID, ID) texts of a row, blank cells read as "".
IdPair(row) == <<Text(row["ImageID"]), Text(row["ID"])>>

\* C9 amended: two examples at different positions have different
\* identifiers when their rows differ in the text of ImageID or of ID
\* (a blank cell being "") and neither ImageID contains "-id_"; two rows
\* that agree on both texts get the same identifier.
C9_UniqueForDistinctIdCells ==
    (Built /\ examples.kind = "return") =>
        \A i, j \in 1..Len(examples.value) :
            LET ri == df.rows[i]
                rj == df.rows[j]
            IN  /\ (/\ IdPair(ri) # IdPair(rj)
                    /\ ~Contains(Text(ri["ImageID"]), <<"-", "i", "d", "_">>)
                    /\ ~Contains(Text(rj["ImageID"]), <<"-", "i", "d", "_">>))
                       => examples.value[i].guid # examples.value[j].guid
                /\ IdPair(ri) = IdPair(rj)
                       => examples.value[i].guid = examples.value[j].guid

\* Two rows with the same ImageID and different IDs were mapped to
\* different identifiers.
C9_Witness ==
    /\ Built
    /\ examples.kind = "return"
    /\ Len(examples.value) = 2
    /\ df.rows[1]["ImageID"] = df.rows[2]["ImageID"]
    /\ df.rows[1]["ID"] = Str(<<"3">>)
    /\ df.rows[2]["ID"] = NaN
    /\ examples.value[1].guid # examples.value[2].guid

\* ---- C8 ----------------------------------------------------------------
\* The file name and split label the claim gives for the call made.
ClaimedFile ==
    CASE request.op = "get_train_examples" ->
             IF request.phase = 0 THEN TRAIN_TSV ELSE Numbered(request.phase)
      [] request.op = "get_dev_examples"   -> DEV_TSV
      [] request.op = "get_test_examples"  -> TEST_TSV

ClaimedLabel ==
    CASE request.op = "get_train_examples" -> <<"t", "r", "a", "i", "n", "-">>
      [] request.op = "get_dev_examples"   -> <<"d", "e", "v", "-">>
      [] request.op = "get_test_examples"  -> <<"t", "e", "s", "t", "-">>

Loaded ==
    request.op \in {"get_train_examples", "get_dev_examples", "get_test_examples"}

\* C8: get_train_examples reads exactly "train.tsv" for phase 0 and
\* "train{phase}.tsv" for every other phase, get_dev_examples "dev.tsv",
\* get_test_examples "test.tsv"; what is returned is built from that
\* file's table, every identifier starting with "train-", "dev-" or
\* "test-"; and when the directory has no such entry the call fails with
\* FileNotFoundError and returns no examples.
C8_SplitFileResolution ==
    Loaded =>
        /\ path = ClaimedFile
        /\ ClaimedFile \notin DOMAIN dir
               => examples = Raise("FileNotFoundError")
        /\ ClaimedFile \in DOMAIN dir
               => /\ examples.exc # "FileNotFoundError"
                  /\ examples.kind = "return"
                         => Len(examples.value) = Len(dir[ClaimedFile].rows)
        /\ examples.kind = "return"
               => \A i \in 1..Len(examples.value) :
                      StartsWith(examples.value[i].guid, ClaimedLabel)

\* Phase 2 was loaded from train2.tsv while train.tsv and train1.tsv hold
\* tables of another length.
C8_Witness ==
    /\ request.op = "get_train_examples"
    /\ request.phase = 2
    /\ examples.kind = "return"
    /\ Len(examples.value) = 1
    /\ TRAIN_TSV \in DOMAIN dir
    /\ Len(dir[TRAIN_TSV].rows) = 0
    /\ Numbered(1) \in DOMAIN dir
    /\ Len(dir[Numbered(1)].rows) = 0

====
